---------------------------- MODULE Spec2Model ----------------------------
(***************************************************************************)
(* TokenCredentialProvider of the vault-secrets-operator: a credential     *)
(* provider that reads a pre-issued Vault token from a local file.         *)
(*                                                                         *)
(* Go strings that the code only compares (paths, namespaces, UIDs, error  *)
(* messages) are TLA+ strings; file contents and tokens, which the code    *)
(* trims, are sequences of one-character strings.  A Go pointer or map     *)
(* that may be nil is a sequence of length 0 (nil) or 1 (the referent).    *)
(***************************************************************************)
EXTENDS Naturals, Sequences, FiniteSets, TLC

(***************************************************************************)
(* Bounds and input sets                                                   *)
(***************************************************************************)
\* longest file content enumerated by the file-reading specification
MaxLen == 4

Providers == {1, 2}
Paths == {"p1", "p2"}
Namespaces == {"ns1", "ns2"}
Chars == {" ", "\n", "\t", "a", "b"}

Nil == << >>
Ref(v) == << v >>
Deref(p) == p[1]

(***************************************************************************)
(* consts.go                                                               *)
(***************************************************************************)
ProviderSecretKeyToken == "token"

StaticUID == "token-file-provider"

(***************************************************************************)
(* Files: what os.ReadFile finds at a path                                 *)
(***************************************************************************)
Unreadable == [readable |-> FALSE, bytes |-> << >>]
File(c) == [readable |-> TRUE, bytes |-> c]

RECURSIVE SeqsUpTo(_)
SeqsUpTo(n) ==
    IF n = 0 THEN {<< >>}
    ELSE LET shorter == SeqsUpTo(n - 1)
         IN shorter \cup {Append(s, c) : s \in {x \in shorter : Len(x) = n - 1}, c \in Chars}

\* every file state up to MaxLen characters
AllFiles == {Unreadable} \cup {File(c) : c \in SeqsUpTo(MaxLen)}

\* the file states of the tests: missing, whitespace only, a token wrapped in
\* whitespace, a bare token
SampleFiles ==
    {Unreadable, File(<<" ", "\n">>), File(<<" ", "a", "\n">>), File(<<"b">>)}

(***************************************************************************)
(* Errors (fmt.Errorf): the message, the path it names, the wrapped cause  *)
(***************************************************************************)
NoErr == [msg |-> "", path |-> "", cause |-> ""]
ErrNotConfigured == [msg |-> "token auth method not configured", path |-> "", cause |-> ""]
ErrInvalid(cause) == [msg |-> "invalid token auth configuration", path |-> "", cause |-> cause.msg]
ErrEmptyPath == [msg |-> "file path is empty", path |-> "", cause |-> ""]
ErrUnreadable(p) == [msg |-> "failed to read token file", path |-> p, cause |-> "os.ReadFile"]
ErrBlank(p) == [msg |-> "token file is empty or contains only whitespace", path |-> p, cause |-> ""]
\* a nil pointer dereference: the call does not return
Panic == [msg |-> "panic: nil pointer dereference", path |-> "", cause |-> ""]

NoRead == ""

(***************************************************************************)
(* Configuration objects                                                   *)
(***************************************************************************)
VaultAuthConfigToken(filePath) == [FilePath |-> filePath]
VaultAuth(token) == [Spec |-> [Method |-> "token", Token |-> token]]

\* the authObj arguments of the tests: no token config, an empty path, a path
AuthObjs ==
    {Ref(VaultAuth(Nil))}
        \cup {Ref(VaultAuth(Ref(VaultAuthConfigToken(p)))) : p \in {""} \cup Paths}

\* VaultAuthConfigToken.Validate (api/v1beta1): fails on an empty FilePath
Validate(token) ==
    IF token.FilePath = "" THEN [msg |-> "empty filePath", path |-> "", cause |-> ""]
    ELSE NoErr

(***************************************************************************)
(* State                                                                   *)
(***************************************************************************)
VARIABLES
    providers,  \* providers[i]: the fields of instance i
    bound,      \* bound[i]: an Init of instance i has returned nil (history)
    fs,         \* fs[p]: the file at path p
    ret,        \* the last call that ended: its argument, results, the path read
    pc,         \* pc[i]: "idle", or "read" between os.ReadFile and the return
    data,       \* data[i]: what os.ReadFile returned to the call in flight
    snap        \* snap[i]: the file the call in flight was reading (history)

vars == <<providers, bound, fs, ret, pc, data, snap>>

NewTokenCredentialProvider(authObj, providerNamespace, uid) ==
    [authObj |-> authObj, providerNamespace |-> providerNamespace, uid |-> uid]

\* &TokenCredentialProvider{}
EmptyProvider == NewTokenCredentialProvider(Nil, "", "")

GetNamespace(t) == t.providerNamespace

GetUID(t) == t.uid

(***************************************************************************)
(* strings.TrimSpace                                                       *)
(***************************************************************************)
IsSpace(c) == c \in {" ", "\t", "\n", "\r", "\f"}

RECURSIVE TrimLeft(_)
TrimLeft(s) ==
    IF s = << >> THEN s
    ELSE IF IsSpace(Head(s)) THEN TrimLeft(Tail(s)) ELSE s

RECURSIVE TrimRight(_)
TrimRight(s) ==
    IF s = << >> THEN s
    ELSE IF IsSpace(s[Len(s)]) THEN TrimRight(SubSeq(s, 1, Len(s) - 1)) ELSE s

TrimSpace_LeftOnly(s) == TrimLeft(s)

TrimSpace(s) == TrimRight(TrimLeft(s))

(***************************************************************************)
(* readTokenFile                                                           *)
(***************************************************************************)
ReadFile(f, filePath) == f[filePath]

\* readTokenFile from the result of os.ReadFile on
AfterRead(filePath, r) ==
    IF ~r.readable
    THEN [token |-> << >>, err |-> ErrUnreadable(filePath), read |-> filePath]
    ELSE LET token == TrimSpace(r.bytes)
         IN IF token = << >>
            THEN [token |-> << >>, err |-> ErrBlank(filePath), read |-> filePath]
            ELSE [token |-> token, err |-> NoErr, read |-> filePath]

\* t.authObj.Spec.Token.FilePath can be evaluated
HasTokenConfig(t) == t.authObj # Nil /\ Deref(t.authObj).Spec.Token # Nil

FilePathOf(t) == Deref(Deref(t.authObj).Spec.Token).FilePath

readTokenFile(t, f) ==
    IF ~HasTokenConfig(t)
    THEN [token |-> << >>, err |-> Panic, read |-> NoRead]
    ELSE LET filePath == FilePathOf(t)
         IN IF filePath = ""
            THEN [token |-> << >>, err |-> ErrEmptyPath, read |-> NoRead]
            ELSE AfterRead(filePath, ReadFile(f, filePath))

(***************************************************************************)
(* GetCreds                                                                *)
(***************************************************************************)
CredsOf_PartialOnError(r) ==
    [creds |-> Ref(ProviderSecretKeyToken :> r.token), err |-> r.err, read |-> r.read]

\* GetCreds from the result of readTokenFile on
CredsOf(r) ==
    IF r.err # NoErr
    THEN [creds |-> Nil, err |-> r.err, read |-> r.read]
    ELSE [creds |-> Ref(ProviderSecretKeyToken :> r.token), err |-> NoErr, read |-> r.read]

\* a process-wide cache of the last token read
GetCredsResult_Cached(t, f) ==
    IF ret.creds # Nil THEN [creds |-> ret.creds, err |-> NoErr, read |-> NoRead]
    ELSE CredsOf(readTokenFile(t, f))

GetCredsResult(t, f) == CredsOf(readTokenFile(t, f))

\* a call that ended: the authObj it was given (nil for GetCreds), its results
Ret(op, who, arg, r) ==
    [op |-> op, who |-> who, arg |-> arg, creds |-> r.creds, err |-> r.err, read |-> r.read]

NoRet == Ret("none", 0, Nil, [creds |-> Nil, err |-> NoErr, read |-> NoRead])

(***************************************************************************)
(* Init                                                                    *)
(***************************************************************************)
Bind(t, authObj, providerNamespace) ==
    [t EXCEPT !.authObj = authObj, !.providerNamespace = providerNamespace]

FailFastRead_Skipped(t, f) == [token |-> << >>, err |-> NoErr, read |-> NoRead]

\* "Try to read the file to validate it exists and is readable"
FailFastRead(t, f) == readTokenFile(t, f)

AssignUID_Keep(t) == t

\* "Set a static UID since we're not tied to a Kubernetes resource"
AssignUID(t) == [t EXCEPT !.uid = StaticUID]

\* binds and reads before it looks at the configuration
InitOutcome_BindFirst(t, authObj, providerNamespace, f) ==
    LET t1 == Bind(t, authObj, providerNamespace)
        r == IF HasTokenConfig(t1) THEN FailFastRead(t1, f)
             ELSE [token |-> << >>, err |-> ErrNotConfigured, read |-> NoRead]
    IN IF r.err # NoErr
       THEN [t |-> t1, err |-> r.err, read |-> r.read]
       ELSE [t |-> AssignUID(t1), err |-> NoErr, read |-> r.read]

\* the receiver after the call, the error returned, the path read
InitOutcome(t, authObj, providerNamespace, f) ==
    IF Deref(authObj).Spec.Token = Nil
    THEN [t |-> t, err |-> ErrNotConfigured, read |-> NoRead]
    ELSE LET verr == Validate(Deref(Deref(authObj).Spec.Token))
         IN IF verr # NoErr
            THEN [t |-> t, err |-> ErrInvalid(verr), read |-> NoRead]
            ELSE LET t1 == Bind(t, authObj, providerNamespace)
                     r == FailFastRead(t1, f)
                 IN IF r.err # NoErr
                    THEN [t |-> t1, err |-> r.err, read |-> r.read]
                    ELSE [t |-> AssignUID(t1), err |-> NoErr, read |-> r.read]

(***************************************************************************)
(* Actions                                                                 *)
(***************************************************************************)
\* t.Init(ctx, client, authObj, providerNamespace) on instance i
InitProvider(i, authObj, providerNamespace) ==
    /\ pc[i] = "idle"
    /\ LET o == InitOutcome(providers[i], authObj, providerNamespace, fs)
       IN /\ providers' = [providers EXCEPT ![i] = o.t]
          /\ bound' = [bound EXCEPT ![i] = @ \/ o.err = NoErr]
          /\ ret' = Ret("Init", i, authObj, [creds |-> Nil, err |-> o.err, read |-> o.read])
    /\ UNCHANGED <<fs, pc, data, snap>>

\* writes the identifier on every call
GetCreds_WritesUID(i) ==
    /\ pc[i] = "idle"
    /\ ret' = Ret("GetCreds", i, Nil, GetCredsResult(providers[i], fs))
    /\ providers' = [providers EXCEPT ![i] = AssignUID(@)]
    /\ UNCHANGED <<bound, fs, pc, data, snap>>

\* t.GetCreds(ctx, client) on instance i, start to return
GetCreds(i) ==
    /\ pc[i] = "idle"
    /\ ret' = Ret("GetCreds", i, Nil, GetCredsResult(providers[i], fs))
    /\ UNCHANGED <<providers, bound, fs, pc, data, snap>>

\* one buffer for the bytes read, shared by the instances
GetCredsRead_SharedBuffer(i) ==
    /\ pc[i] = "idle"
    /\ HasTokenConfig(providers[i])
    /\ FilePathOf(providers[i]) # ""
    /\ pc' = [pc EXCEPT ![i] = "read"]
    /\ data' = [j \in Providers |-> ReadFile(fs, FilePathOf(providers[i]))]
    /\ snap' = [snap EXCEPT ![i] = fs[FilePathOf(providers[i])]]
    /\ UNCHANGED <<providers, bound, fs, ret>>

\* GetCreds of instance i up to and including os.ReadFile
GetCredsRead(i) ==
    /\ pc[i] = "idle"
    /\ HasTokenConfig(providers[i])
    /\ FilePathOf(providers[i]) # ""
    /\ pc' = [pc EXCEPT ![i] = "read"]
    /\ data' = [data EXCEPT ![i] = ReadFile(fs, FilePathOf(providers[i]))]
    /\ snap' = [snap EXCEPT ![i] = fs[FilePathOf(providers[i])]]
    /\ UNCHANGED <<providers, bound, fs, ret>>

\* GetCreds of instance i from os.ReadFile's return to its own
GetCredsReturn(i) ==
    /\ pc[i] = "read"
    /\ ret' = Ret("GetCreds", i, Nil, CredsOf(AfterRead(FilePathOf(providers[i]), data[i])))
    /\ pc' = [pc EXCEPT ![i] = "idle"]
    /\ data' = [data EXCEPT ![i] = Unreadable]
    /\ snap' = [snap EXCEPT ![i] = Unreadable]
    /\ UNCHANGED <<providers, bound, fs>>

\* an external agent replaces, empties or removes the file at path p
Rewrite(p, c) ==
    /\ fs[p] # c
    /\ fs' = [fs EXCEPT ![p] = c]
    /\ UNCHANGED <<providers, bound, ret, pc, data, snap>>

(***************************************************************************)
(* Specifications                                                          *)
(***************************************************************************)
Idle ==
    /\ ret = NoRet
    /\ pc = [i \in Providers |-> "idle"]
    /\ data = [i \in Providers |-> Unreadable]
    /\ snap = [i \in Providers |-> Unreadable]

\* the life of two instances: each constructed empty or with all fields given
Init ==
    /\ providers \in [Providers ->
           {EmptyProvider} \cup {NewTokenCredentialProvider(a, "ns0", "test-uid") : a \in AuthObjs}]
    /\ bound = [i \in Providers |-> FALSE]
    /\ fs \in [Paths -> SampleFiles]
    /\ Idle

Next ==
    \/ \E i \in Providers, a \in AuthObjs, ns \in Namespaces : InitProvider(i, a, ns)
    \/ \E i \in Providers : GetCreds(i)
    \/ \E p \in Paths, c \in SampleFiles : Rewrite(p, c)

Spec == Init /\ [][Next]_vars

\* the file-reading routine over every file content up to MaxLen
InitRead ==
    /\ providers = [i \in Providers |->
           IF i = 1
           THEN NewTokenCredentialProvider(Ref(VaultAuth(Ref(VaultAuthConfigToken("p1")))), "", "")
           ELSE EmptyProvider]
    /\ bound = [i \in Providers |-> FALSE]
    /\ fs \in [Paths -> AllFiles]
    /\ fs["p2"] = Unreadable
    /\ Idle

NextRead == GetCreds(1)

SpecRead == InitRead /\ [][NextRead]_vars

\* two bound instances whose GetCreds calls interleave
InitConc ==
    /\ providers \in [Providers ->
           {NewTokenCredentialProvider(Ref(VaultAuth(Ref(VaultAuthConfigToken(p)))), ns, StaticUID) :
               p \in Paths, ns \in Namespaces}]
    /\ bound = [i \in Providers |-> TRUE]
    /\ fs \in [Paths -> SampleFiles]
    /\ Idle

NextConc ==
    \/ \E i \in Providers : GetCredsRead(i)
    \/ \E i \in Providers : GetCredsReturn(i)
    \/ \E p \in Paths, c \in SampleFiles : Rewrite(p, c)

SpecConc == InitConc /\ [][NextConc]_vars

(***************************************************************************)
(* What the specification expects of a read, stated without TrimSpace      *)
(***************************************************************************)
\* S is c without its leading and trailing whitespace, and is not empty
IsTrimOf(S, c) ==
    \E i, j \in 1..Len(c) :
        /\ i <= j
        /\ S = SubSeq(c, i, j)
        /\ ~IsSpace(c[i]) /\ ~IsSpace(c[j])
        /\ \A k \in 1..Len(c) : (k < i \/ k > j) => IsSpace(c[k])

\* the non-empty contiguous parts of c
Parts(c) == {SubSeq(c, i, j) : i, j \in 1..Len(c)} \ {<< >>}

Blank(c) == \A k \in 1..Len(c) : IsSpace(c[k])

\* what GetCreds is to return for the file found at the bound path
Expected(path, file) ==
    IF ~file.readable
    THEN [creds |-> Nil, err |-> ErrUnreadable(path), read |-> path]
    ELSE IF Blank(file.bytes)
    THEN [creds |-> Nil, err |-> ErrBlank(path), read |-> path]
    ELSE [creds |->
              Ref(ProviderSecretKeyToken :>
                  (CHOOSE S \in Parts(file.bytes) : IsTrimOf(S, file.bytes))),
          err |-> NoErr, read |-> path]

LastGetCreds == ret.op = "GetCreds"

LastInit == ret.op = "Init"

(***************************************************************************)
(* C1: once Init has succeeded, every GetCreds call returns what the file  *)
(* at the bound path holds at the moment of the call (its trimmed content  *)
(* under "token", or the error for an unreadable or blank file), whatever  *)
(* Init or an earlier call read.                                           *)
(***************************************************************************)
C1_FreshReadEachCall ==
    [][\A i \in Providers :
          (bound[i] /\ ret'.op = "GetCreds" /\ ret'.who = i /\ GetCreds(i)) =>
              ret' = Ret("GetCreds", i, Nil,
                         Expected(FilePathOf(providers[i]), fs[FilePathOf(providers[i])]))]_vars

\* an initialised instance has answered a call with the token its file holds
C1_Witness ==
    /\ LastGetCreds
    /\ bound[ret.who]
    /\ ret.creds = Ref(ProviderSecretKeyToken :> <<"b">>)
    /\ fs[FilePathOf(providers[ret.who])] = File(<<"b">>)

(***************************************************************************)
(* C2: for a readable file at the bound path whose trimmed content is a    *)
(* non-empty S, GetCreds returns no error and exactly one entry, "token"   *)
(* with value S.                                                           *)
(***************************************************************************)
C2_RoundTrip ==
    LastGetCreds =>
        LET file == fs[FilePathOf(providers[ret.who])]
        IN \A S \in Parts(file.bytes) :
               (file.readable /\ IsTrimOf(S, file.bytes)) =>
                   /\ ret.err = NoErr
                   /\ ret.creds # Nil
                   /\ DOMAIN Deref(ret.creds) = {ProviderSecretKeyToken}
                   /\ Deref(ret.creds)[ProviderSecretKeyToken] = S

C2_Witness ==
    /\ LastGetCreds
    /\ fs["p1"] = File(<<"\t", "a", "\n">>)
    /\ ret.creds = Ref(ProviderSecretKeyToken :> <<"a">>)

(***************************************************************************)
(* C3: a GetCreds that returns an error returns a nil credential set, and  *)
(* one that returns a credential set returns no error and the whole set.   *)
(***************************************************************************)
C3_NoPartialOutput ==
    LastGetCreds =>
        /\ ret.err # NoErr => ret.creds = Nil
        /\ ret.creds # Nil =>
               /\ ret.err = NoErr
               /\ DOMAIN Deref(ret.creds) = {ProviderSecretKeyToken}
               /\ Deref(ret.creds)[ProviderSecretKeyToken] # << >>

C3_Witness ==
    /\ LastGetCreds
    /\ ret.err \in {ErrBlank(p) : p \in Paths}
    /\ ret.creds = Nil

(***************************************************************************)
(* C4: Init on a fresh instance fails exactly when readTokenFile, called   *)
(* on a fresh instance holding the same configuration with the files as    *)
(* they are, fails (a nil dereference counted as failing).                 *)
(***************************************************************************)
C4_FailFastEquivalence ==
    [][\A i \in Providers, a \in AuthObjs, ns \in Namespaces :
          (providers[i] = EmptyProvider /\ ret'.op = "Init" /\ ret'.who = i /\ ret'.arg = a
               /\ InitProvider(i, a, ns)) =>
              ((ret'.err # NoErr) <=>
                   (readTokenFile(NewTokenCredentialProvider(a, ns, ""), fs).err # NoErr))]_vars

\* Init of a fresh instance failed on a blank file
C4_Witness ==
    /\ LastInit
    /\ ret.err \in {ErrBlank(p) : p \in Paths}
    /\ GetUID(providers[ret.who]) = ""

(***************************************************************************)
(* C5: an Init that returns an error leaves the bound configuration, the   *)
(* namespace and the identifier of the instance as they were.              *)
(***************************************************************************)
C5_FailedInitLeavesFields ==
    [][\A i \in Providers, a \in AuthObjs, ns \in Namespaces :
          (ret'.op = "Init" /\ ret'.who = i /\ ret'.arg = a /\ ret'.err # NoErr
               /\ InitProvider(i, a, ns)) =>
              /\ providers'[i].authObj = providers[i].authObj
              /\ GetNamespace(providers'[i]) = GetNamespace(providers[i])
              /\ GetUID(providers'[i]) = GetUID(providers[i])]_vars

(***************************************************************************)
(* C6: a GetCreds call, failing or not, changes no field of any instance:  *)
(* configuration, namespace and identifier are what they were.             *)
(***************************************************************************)
C6_GetCredsWritesNoField ==
    [][(ret' # ret /\ ret'.op = "GetCreds") =>
          \A j \in Providers :
              /\ providers'[j].authObj = providers[j].authObj
              /\ GetNamespace(providers'[j]) = GetNamespace(providers[j])
              /\ GetUID(providers'[j]) = GetUID(providers[j])]_vars

\* an instance made with all fields given has answered a call and kept them
C6_Witness ==
    /\ LastGetCreds
    /\ ret.creds # Nil
    /\ GetUID(providers[ret.who]) = "test-uid"
    /\ GetNamespace(providers[ret.who]) = "ns0"

(***************************************************************************)
(* C7: Init looks at the configuration before the file: without a token    *)
(* sub-configuration it fails "not configured", with one that Validate     *)
(* rejects it fails "invalid" wrapping the cause, and in both cases it     *)
(* reads no file, whatever the files are.                                  *)
(***************************************************************************)
C7_ConfigCheckedBeforeFile ==
    LastInit =>
        LET token == Deref(ret.arg).Spec.Token
        IN /\ token = Nil =>
                  ret.err = ErrNotConfigured /\ ret.read = NoRead
           /\ (token # Nil /\ Validate(Deref(token)) # NoErr) =>
                  /\ ret.err.msg = "invalid token auth configuration"
                  /\ ret.err.cause = Validate(Deref(token)).msg
                  /\ ret.read = NoRead

\* Init rejected an empty path while the files were all valid
C7_Witness ==
    /\ LastInit
    /\ ret.err.cause = "empty filePath"
    /\ ret.read = NoRead
    /\ \A p \in Paths : fs[p] = File(<<"b">>)

(***************************************************************************)
(* C8: after a successful Init GetUID is "token-file-provider", whatever   *)
(* was bound and whatever the identifier was before, so two initialised    *)
(* instances report the same identifier.                                  *)
(***************************************************************************)
C8_StaticUID ==
    /\ (LastInit /\ ret.err = NoErr) => GetUID(providers[ret.who]) = "token-file-provider"
    /\ \A i, j \in Providers :
           (bound[i] /\ bound[j]) =>
               /\ GetUID(providers[i]) = "token-file-provider"
               /\ GetUID(providers[i]) = GetUID(providers[j])

\* two initialised instances, bound to different paths and namespaces
C8_Witness ==
    /\ bound[1] /\ bound[2]
    /\ FilePathOf(providers[1]) # FilePathOf(providers[2])
    /\ GetNamespace(providers[1]) # GetNamespace(providers[2])
    /\ LastInit /\ ret.err = NoErr

(***************************************************************************)
(* C9: with two bound instances whose GetCreds calls interleave, a step of *)
(* one call changes neither a file nor a field of an instance nor what the *)
(* other call has read, and each call returns what it would return alone   *)
(* on the file as it was when the call read it.                            *)
(***************************************************************************)
C9_ConcurrentCallsIndependent ==
    [][\A i \in Providers :
          /\ (GetCredsRead(i) \/ GetCredsReturn(i)) =>
                 /\ fs' = fs
                 /\ providers' = providers
                 /\ \A j \in Providers \ {i} : pc'[j] = pc[j] /\ data'[j] = data[j]
          /\ GetCredsReturn(i) =>
                 ret' = Ret("GetCreds", i, Nil,
                            GetCredsResult(providers[i], [p \in Paths |-> snap[i]]))]_vars

\* two calls on the same path: the first read "a" and is still in flight,
\* the file was replaced, the second read "b" and has returned
C9_Witness ==
    /\ LastGetCreds
    /\ ret.who = 1
    /\ ret.creds = Ref(ProviderSecretKeyToken :> <<"b">>)
    /\ pc[2] = "read"
    /\ FilePathOf(providers[1]) = FilePathOf(providers[2])
    /\ data[2] = File(<<" ", "a", "\n">>)

(***************************************************************************)
(* C10: once Init has succeeded the bound FilePath is never empty, so a    *)
(* later GetCreds fails only with "failed to read token file" or "is empty *)
(* or contains only whitespace", never with "file path is empty".          *)
(***************************************************************************)
C10_BoundPathNonEmpty ==
    /\ \A i \in Providers :
           bound[i] => (HasTokenConfig(providers[i]) /\ FilePathOf(providers[i]) # "")
    /\ (LastGetCreds /\ bound[ret.who]) =>
           ret.err \in {NoErr} \cup {ErrUnreadable(p) : p \in Paths} \cup {ErrBlank(p) : p \in Paths}

\* an initialised instance failed a later GetCreds on a file gone missing
C10_Witness ==
    /\ LastGetCreds
    /\ bound[ret.who]
    /\ ret.err = ErrUnreadable(FilePathOf(providers[ret.who]))

=============================================================================
